---------------------------- MODULE Spec2Model ----------------------------
(***************************************************************************)
(* The HTTP transport gateway of mcp-searxng (createHttpServer): the       *)
(* session registry `transports`, the POST / GET / DELETE handlers of      *)
(* /mcp, the callbacks the gateway hands to each transport binding         *)
(* (sessionIdGenerator, onsessioninitialized, onclose) and the logging     *)
(* helper the handlers call.                                               *)
(*                                                                         *)
(* A handler is an async function: it runs atomically between two awaits.  *)
(* Each action below is one such run.  The binding itself                  *)
(* (StreamableHTTPServerTransport) and the protocol engine (Server) are    *)
(* library objects; the model keeps of them only what the gateway reads or *)
(* what the library calls back into the gateway.                           *)
(***************************************************************************)
EXTENDS Integers, Sequences, FiniteSets, Bags, TLC

\* ------------------------------------------------------------- bounds
MaxHandlers   == 2   \* request handlers in flight at the same time
MaxTransports == 2   \* bindings constructed in one run
MaxUuids      == 2   \* size of the modelled UUID space
MaxNotifs     == 2   \* notifications written to push channels in one run
MaxSetCalls   == 3   \* setLogLevel calls followed in one run of the logger

TransportIds == 1..MaxTransports
Uuids        == 1..MaxUuids

NoTransport == 0     \* undefined (no binding)
NoSession   == 0     \* undefined (no mcp-session-id header / no sessionId)

\* ------------------------------------------------------------- responses
\* res.status(400).json({jsonrpc, error: {code, message}, id: null})
BadRequestCode    == -32000
BadRequestMessage == "Bad Request: No valid session ID provided"
InvalidSessionText == "Invalid or missing session ID"

NoResponse == [status |-> 0, kind |-> "none", code |-> 0, message |-> ""]

BadRequestJson ==
  [status |-> 400, kind |-> "json", code |-> BadRequestCode,
   message |-> BadRequestMessage]

\* variant: an unknown session answered as "not found"
InvalidSessionNotFound ==
  [status |-> 404, kind |-> "text", code |-> 0, message |-> "Session not found"]

InvalidSessionResponse ==
  [status |-> 400, kind |-> "text", code |-> 0, message |-> InvalidSessionText]

\* what the binding answers to a request dispatched to it
BindingOk ==
  [status |-> 200, kind |-> "binding", code |-> 0, message |-> ""]

BindingAlreadyInitialized ==
  [status |-> 400, kind |-> "binding", code |-> -32600,
   message |-> "Invalid Request: Server already initialized"]

\* ------------------------------------------------------------- logging
LogLevelInputs == {"debug", "info", "error"}

levels == <<"debug", "info", "warning", "error">>

\* Array.prototype.indexOf, 0-based, -1 when absent
indexOf(arr, x) ==
  IF \E i \in 1..Len(arr) : arr[i] = x
    THEN (CHOOSE i \in 1..Len(arr) :
            arr[i] = x /\ \A j \in 1..(i - 1) : arr[j] # x) - 1
    ELSE -1

\* variant: a message at the current level is filtered out
shouldLogStrict(level, current) ==
  indexOf(levels, level) > indexOf(levels, current)

shouldLog(level, current) == indexOf(levels, level) >= indexOf(levels, current)

VARIABLES
  transports,       \* the registry: session id -> binding
  sessionId,        \* transport.sessionId of each binding
  created,          \* bindings constructed so far
  serverTransport,  \* the binding the shared Server is connected to
  req,              \* the handlers suspended at an await (a bag of records)
  answer,           \* the request answered by the step just taken, if any
  drawn,            \* the UUIDs randomUUID has returned
  closeRuns,        \* runs of each binding's close callback
  deleted,          \* the session ids whose DELETE was acknowledged
  sse,              \* push channel of each binding open?
  stream,           \* notifications written to each binding's push channel
  currentLogLevel,  \* logging state
  call              \* the tool-side function call in progress, if any

gatewayVars == <<transports, sessionId, created, serverTransport, req, answer,
                 drawn, closeRuns, deleted, sse, stream>>

vars == <<gatewayVars, currentLogLevel, call>>

RegisteredIds == {u \in Uuids : transports[u] # NoTransport}

\* notifications written to push channels so far
RECURSIVE SumLen(_, _)
SumLen(str, n) == IF n = 0 THEN 0 ELSE Len(str[n]) + SumLen(str, n - 1)

enqueued == SumLen(stream, MaxTransports)

NoAnswer ==
  [method |-> "NONE", sid |-> NoSession, init |-> FALSE, inRegistry |-> FALSE,
   wasClosed |-> FALSE, dispatched |-> NoTransport, returned |-> NoSession,
   res |-> NoResponse, failed |-> FALSE, escaped |-> FALSE]

\* no tool-side function is being followed
NoCall == [fn |-> "none"]

\* createHttpServer has returned: the registry is empty, nothing is in flight
GatewayInit ==
  /\ transports = [u \in Uuids |-> NoTransport]
  /\ sessionId = [t \in TransportIds |-> NoSession]
  /\ created = 0
  /\ serverTransport = NoTransport
  /\ req = EmptyBag
  /\ answer = NoAnswer
  /\ drawn = {}
  /\ closeRuns = [t \in TransportIds |-> 0]
  /\ deleted = {}
  /\ sse = [t \in TransportIds |-> FALSE]
  /\ stream = [t \in TransportIds |-> <<>>]

Init ==
  /\ GatewayInit
  /\ currentLogLevel = "info"
  /\ call = NoCall

\* ------------------------------------------------------------- helpers
\* variant: the newest notification is put first
SendFirst(q, n) == <<n>> \o q

\* transport.send of a notification: written to the push channel, after the
\* ones written before it
Send(q, n) == Append(q, n)

\* logMessage(server, level, ..): server.notification when shouldLog(level).
\* st is the binding the server is connected to, open the push channels,
\* str their contents.  A notification reaches a client only through an
\* open push channel; it carries its enqueue number.
Delivers(level, st, open) ==
  /\ shouldLog(level, currentLogLevel)
  /\ st # NoTransport
  /\ open[st]

logMessage(level, st, open, str) ==
  IF Delivers(level, st, open)
    THEN [str EXCEPT ![st] = Send(@, enqueued + 1)]
    ELSE str

CanLog(level, st, open) == Delivers(level, st, open) => enqueued < MaxNotifs

\* sessionId && transports[sessionId]
HasSession(sid) == sid # NoSession /\ transports[sid] # NoTransport

\* variants of the branch condition: the header is not looked at; the body
\* is not looked at
IsNewInitializationAnyHeader(sid, init) == init

IsNewInitializationAnyBody(sid, init) == sid = NoSession

\* !sessionId && isInitializeRequest(req.body)
IsNewInitialization(sid, init) == sid = NoSession /\ init

\* variant: an id generator that only avoids the ids of the live sessions
randomUUIDLive(used) == Uuids \ RegisteredIds

\* sessionIdGenerator: () => randomUUID(); the values it can return, given
\* the ones returned before (a version-4 UUID does not repeat)
randomUUID(used) == Uuids \ used

\* variants: the callback registers nothing; the callback registers the
\* binding constructed last instead of its own
onsessioninitializedNone(reg, sid, t) == reg

onsessioninitializedLatest(reg, sid, t) == [reg EXCEPT ![sid] = created]

\* variant: the callback also registers the binding under every free key
onsessioninitializedAlias(reg, sid, t) ==
  [u \in Uuids |-> IF u = sid \/ reg[u] = NoTransport THEN t ELSE reg[u]]

\* onsessioninitialized: transports[sessionId] = transport
onsessioninitialized(reg, sid, t) == [reg EXCEPT ![sid] = t]

\* variants: the callback keeps the entry; it removes the entry only while
\* the server is connected to that session; it removes the last entry when
\* its own is already gone
oncloseKeep(reg, sid) == reg

oncloseIfConnected(reg, sid) ==
  IF sid # NoSession /\ serverTransport # NoTransport
       /\ sessionId[serverTransport] = sid
    THEN [reg EXCEPT ![sid] = NoTransport] ELSE reg

oncloseSplice(reg, sid) ==
  IF sid = NoSession THEN reg
  ELSE IF reg[sid] # NoTransport THEN [reg EXCEPT ![sid] = NoTransport]
  ELSE [u \in Uuids |->
         IF reg[u] # NoTransport
              /\ \A v \in Uuids : reg[v] # NoTransport => v <= u
           THEN NoTransport ELSE reg[u]]

\* variant: the callback empties the registry
oncloseAll(reg, sid) ==
  IF sid # NoSession THEN [u \in Uuids |-> NoTransport] ELSE reg

\* variant: a run of the callback that finds the entry gone puts it back
oncloseToggle(reg, sid) ==
  IF sid = NoSession THEN reg
  ELSE IF reg[sid] # NoTransport THEN [reg EXCEPT ![sid] = NoTransport]
  ELSE [reg EXCEPT ![sid] = CHOOSE t \in TransportIds : sessionId[t] = sid]

\* transport.onclose: if (transport.sessionId) delete transports[..]
onclose(reg, sid) ==
  IF sid # NoSession THEN [reg EXCEPT ![sid] = NoTransport] ELSE reg

\* a new request can be taken in
Free == BagCardinality(req) < MaxHandlers

Suspend(h) == req (+) SetToBag({h})
Resume(h) == req (-) SetToBag({h})

\* the ids whose binding has run its close callback
ClosedIds ==
  {sessionId[t] : t \in {x \in TransportIds : closeRuns[x] > 0}} \ {NoSession}

\* a request as it arrives: its method, header and body, and what the
\* registry and the closed sessions were at that moment
Arrived(m, sid, init) ==
  [method |-> m, sid |-> sid, init |-> init,
   inRegistry |-> sid \in RegisteredIds, wasClosed |-> sid \in ClosedIds,
   dispatched |-> NoTransport, returned |-> NoSession, res |-> NoResponse,
   failed |-> FALSE, escaped |-> FALSE]

\* a handler suspended at an await
InFlight(m, sid, init, pc, t) ==
  [method |-> m, sid |-> sid, init |-> init, pc |-> pc,
   inRegistry |-> sid \in RegisteredIds, wasClosed |-> sid \in ClosedIds,
   transport |-> t]

\* the answer to the suspended handler h, dispatched to binding t
Answered(h, t, response) ==
  [method |-> h.method, sid |-> h.sid, init |-> h.init,
   inRegistry |-> h.inRegistry, wasClosed |-> h.wasClosed,
   dispatched |-> t, returned |-> NoSession, res |-> response,
   failed |-> FALSE, escaped |-> FALSE]

\* an awaited call of the handler rejected: the handlers have no try/catch,
\* so nothing is written to res and the handler's own promise rejects
Rejected(a) == [a EXCEPT !.failed = TRUE, !.escaped = TRUE]

\* ------------------------------------------------------------- POST /mcp
\* variant: an initialize body under a registered id gets a new binding
PostReuseRebind(sid, init) ==
  /\ Free
  /\ HasSession(sid)
  /\ CanLog("debug", serverTransport, sse)
  /\ stream' = logMessage("debug", serverTransport, sse, stream)
  /\ IF init /\ created < MaxTransports
       THEN /\ created' = created + 1
            /\ serverTransport' = created + 1
            /\ req' = Suspend(InFlight("POST", sid, init, "connect", created + 1))
       ELSE /\ req' = Suspend(InFlight("POST", sid, init, "handle", transports[sid]))
            /\ UNCHANGED <<created, serverTransport>>
  /\ answer' = NoAnswer
  /\ UNCHANGED <<transports, sessionId, drawn, closeRuns, deleted, sse,
                 currentLogLevel, call>>

\* if (sessionId && transports[sessionId]): reuse, then handleRequest
PostReuse(sid, init) ==
  /\ Free
  /\ HasSession(sid)
  /\ CanLog("debug", serverTransport, sse)
  /\ stream' = logMessage("debug", serverTransport, sse, stream)
  /\ req' = Suspend(InFlight("POST", sid, init, "handle", transports[sid]))
  /\ answer' = NoAnswer
  /\ UNCHANGED <<transports, sessionId, created, serverTransport, drawn,
                 closeRuns, deleted, sse, currentLogLevel, call>>

\* variant: the binding is put into the registry, under a free key, as soon
\* as it is constructed
PostInitializeEager(sid, init) ==
  /\ Free
  /\ ~HasSession(sid)
  /\ IsNewInitialization(sid, init)
  /\ created < MaxTransports
  /\ CanLog("info", serverTransport, sse)
  /\ stream' = logMessage("info", serverTransport, sse, stream)
  /\ created' = created + 1
  /\ serverTransport' = created + 1
  /\ transports' =
       IF \E u \in Uuids : transports[u] = NoTransport
         THEN [transports EXCEPT
                 ![CHOOSE u \in Uuids : transports[u] = NoTransport] = created + 1]
         ELSE transports
  /\ req' = Suspend(InFlight("POST", sid, init, "connect", created + 1))
  /\ answer' = NoAnswer
  /\ UNCHANGED <<sessionId, drawn, closeRuns, deleted, sse, currentLogLevel, call>>

\* else if (!sessionId && isInitializeRequest(req.body)): new binding,
\* onclose set, server.connect(transport) started
PostInitialize(sid, init) ==
  /\ Free
  /\ ~HasSession(sid)
  /\ IsNewInitialization(sid, init)
  /\ created < MaxTransports
  /\ CanLog("info", serverTransport, sse)
  /\ stream' = logMessage("info", serverTransport, sse, stream)
  /\ created' = created + 1
  /\ serverTransport' = created + 1
  /\ req' = Suspend(InFlight("POST", sid, init, "connect", created + 1))
  /\ answer' = NoAnswer
  /\ UNCHANGED <<transports, sessionId, drawn, closeRuns, deleted, sse,
                 currentLogLevel, call>>

\* else: 400 with the JSON-RPC error, return
PostInvalid(sid, init) ==
  /\ Free
  /\ ~HasSession(sid)
  /\ ~IsNewInitialization(sid, init)
  /\ answer' = [Arrived("POST", sid, init) EXCEPT !.res = BadRequestJson]
  /\ UNCHANGED <<transports, sessionId, created, serverTransport, req, drawn,
                 closeRuns, deleted, sse, stream, currentLogLevel, call>>

Post(sid, init) ==
  \/ PostReuse(sid, init)
  \/ PostInitialize(sid, init)
  \/ PostInvalid(sid, init)

\* await server.connect(transport) resolved; transport.handleRequest of the
\* initialize message: the binding draws its session id from
\* sessionIdGenerator, calls onsessioninitialized and answers with the id.
\* Nothing follows the await of handleRequest in the handler.
PostConnected(h) ==
  /\ h \in BagToSet(req)
  /\ h.pc = "connect"
  /\ CanLog("debug", serverTransport, sse)
  /\ \E u \in randomUUID(drawn) :
       LET t == h.transport
       IN /\ drawn' = drawn \cup {u}
          /\ sessionId' = [sessionId EXCEPT ![t] = u]
          /\ transports' = onsessioninitialized(transports, u, t)
          /\ answer' = [Answered(h, t, BindingOk) EXCEPT !.returned = u]
  /\ stream' = logMessage("debug", serverTransport, sse, stream)
  /\ req' = Resume(h)
  /\ UNCHANGED <<created, serverTransport, closeRuns, deleted, sse,
                 currentLogLevel, call>>

\* await server.connect(transport) rejected: the handler ends there, no
\* response is written
PostConnectFails(h) ==
  /\ h \in BagToSet(req)
  /\ h.pc = "connect"
  /\ req' = Resume(h)
  /\ answer' = Rejected(Answered(h, NoTransport, NoResponse))
  /\ UNCHANGED <<transports, sessionId, created, serverTransport, drawn,
                 closeRuns, deleted, sse, stream, currentLogLevel, call>>

\* await transport.handleRequest(req, res, req.body) of a reused binding
\* resolved: the binding has answered
PostHandled(h) ==
  /\ h \in BagToSet(req)
  /\ h.pc = "handle"
  /\ h.method = "POST"
  /\ req' = Resume(h)
  /\ answer' = Answered(h, h.transport,
                  IF h.init THEN BindingAlreadyInitialized ELSE BindingOk)
  /\ UNCHANGED <<transports, sessionId, created, serverTransport, drawn,
                 closeRuns, deleted, sse, stream, currentLogLevel, call>>

\* await transport.handleRequest(..) of a POST or DELETE rejected
HandleRequestFails(h) ==
  /\ h \in BagToSet(req)
  /\ h.pc = "handle"
  /\ req' = Resume(h)
  /\ answer' = Rejected(Answered(h, h.transport, NoResponse))
  /\ UNCHANGED <<transports, sessionId, created, serverTransport, drawn,
                 closeRuns, deleted, sse, stream, currentLogLevel, call>>

\* serving a dispatched POST: the tool handlers log through the same server
\* (logMessage(server, level, ..) in performWebSearch and
\* fetchAndConvertToMarkdown)
ToolLog(h, level) ==
  /\ h \in BagToSet(req)
  /\ h.pc = "handle"
  /\ h.method = "POST"
  /\ ~h.init
  /\ Delivers(level, serverTransport, sse)
  /\ enqueued < MaxNotifs
  /\ stream' = logMessage(level, serverTransport, sse, stream)
  /\ answer' = NoAnswer
  /\ UNCHANGED <<transports, sessionId, created, serverTransport, req, drawn,
                 closeRuns, deleted, sse, currentLogLevel, call>>

\* ------------------------------------------------------------- GET /mcp
BindingConflict ==
  [status |-> 409, kind |-> "binding", code |-> BadRequestCode,
   message |-> "Conflict: Only one SSE stream is allowed per session"]

\* if (!sessionId || !transports[sessionId]): 400, return
GetInvalid(sid) ==
  /\ Free
  /\ ~HasSession(sid)
  /\ answer' = [Arrived("GET", sid, FALSE) EXCEPT !.res = InvalidSessionResponse]
  /\ UNCHANGED <<transports, sessionId, created, serverTransport, req, drawn,
                 closeRuns, deleted, sse, stream, currentLogLevel, call>>

\* transport.handleRequest(req, res): the binding opens its push channel and
\* the handler returns
GetStream(sid) ==
  /\ Free
  /\ HasSession(sid)
  /\ LET t == transports[sid]
     IN /\ sse' = [sse EXCEPT ![t] = TRUE]
        /\ answer' = [Arrived("GET", sid, FALSE) EXCEPT
                        !.dispatched = t,
                        !.res = IF sse[t] THEN BindingConflict ELSE BindingOk]
  /\ UNCHANGED <<transports, sessionId, created, serverTransport, req, drawn,
                 closeRuns, deleted, stream, currentLogLevel, call>>

\* await transport.handleRequest(req, res) of a GET rejected
GetFails(sid) ==
  /\ Free
  /\ HasSession(sid)
  /\ answer' = Rejected([Arrived("GET", sid, FALSE) EXCEPT
                           !.dispatched = transports[sid]])
  /\ UNCHANGED <<transports, sessionId, created, serverTransport, req, drawn,
                 closeRuns, deleted, sse, stream, currentLogLevel, call>>

Get(sid) == GetInvalid(sid) \/ GetStream(sid) \/ GetFails(sid)

\* ------------------------------------------------------------- close
\* The binding closes: it ends its push channel and runs its onclose, which
\* since server.connect is the gateway's callback followed by the server's
\* own (the server is then connected to no binding).
TransportClose(t) ==
  LET open == [sse EXCEPT ![t] = FALSE]
      reg == onclose(transports, sessionId[t])
  IN /\ sessionId[t] # NoSession => CanLog("debug", serverTransport, open)
     /\ sse' = open
     /\ stream' = IF sessionId[t] # NoSession
                    THEN logMessage("debug", serverTransport, open, stream)
                    ELSE stream
     /\ transports' = reg
     /\ closeRuns' = [closeRuns EXCEPT ![t] = @ + 1]
     /\ serverTransport' = NoTransport

\* ------------------------------------------------------------- DELETE /mcp
\* variant: a DELETE for an unknown id also empties the registry
DeleteInvalidPurges(sid) ==
  /\ Free
  /\ ~HasSession(sid)
  /\ answer' = [Arrived("DELETE", sid, FALSE) EXCEPT
                  !.res = InvalidSessionResponse]
  /\ transports' = [u \in Uuids |-> NoTransport]
  /\ UNCHANGED <<sessionId, created, serverTransport, req, drawn,
                 closeRuns, deleted, sse, stream, currentLogLevel, call>>

DeleteInvalid(sid) ==
  /\ Free
  /\ ~HasSession(sid)
  /\ answer' = [Arrived("DELETE", sid, FALSE) EXCEPT
                  !.res = InvalidSessionResponse]
  /\ UNCHANGED <<transports, sessionId, created, serverTransport, req, drawn,
                 closeRuns, deleted, sse, stream, currentLogLevel, call>>

\* const transport = transports[sessionId]; transport.handleRequest called
DeleteDispatch(sid) ==
  /\ Free
  /\ HasSession(sid)
  /\ req' = Suspend(InFlight("DELETE", sid, FALSE, "handle", transports[sid]))
  /\ answer' = NoAnswer
  /\ UNCHANGED <<transports, sessionId, created, serverTransport, drawn,
                 closeRuns, deleted, sse, stream, currentLogLevel, call>>

Delete(sid) == DeleteInvalid(sid) \/ DeleteDispatch(sid)

\* await transport.handleRequest(req, res) of a DELETE: the binding closes
\* itself and acknowledges
DeleteClose(h) ==
  /\ h \in BagToSet(req)
  /\ h.pc = "handle"
  /\ h.method = "DELETE"
  /\ TransportClose(h.transport)
  /\ req' = Resume(h)
  /\ answer' = Answered(h, h.transport, BindingOk)
  /\ deleted' = deleted \cup {h.sid}
  /\ UNCHANGED <<sessionId, created, drawn, currentLogLevel, call>>

\* the client drops the connection of the push channel; the binding may run
\* its close on that (closes) or only forget the stream
ChannelDisconnect(t, closes) ==
  /\ sse[t]
  /\ IF closes
       THEN TransportClose(t)
       ELSE /\ sse' = [sse EXCEPT ![t] = FALSE]
            /\ UNCHANGED <<transports, closeRuns, deleted, serverTransport,
                           stream>>
  /\ answer' = NoAnswer
  /\ UNCHANGED <<sessionId, created, req, drawn, deleted, currentLogLevel, call>>

\* ------------------------------------------------------------- GET /health
packageVersion == "0.6.1"

\* variant: the body also reports how many sessions are registered
HealthResponseSessions ==
  [status |-> 200, kind |-> "json", code |-> 0, message |-> "",
   body |-> [status |-> "healthy", server |-> "ihor-sokoliuk/mcp-searxng",
             version |-> packageVersion, transport |-> "http",
             sessions |-> Cardinality(RegisteredIds)]]

\* res.json({status, server, version, transport})
HealthResponse ==
  [status |-> 200, kind |-> "json", code |-> 0, message |-> "",
   body |-> [status |-> "healthy", server |-> "ihor-sokoliuk/mcp-searxng",
             version |-> packageVersion, transport |-> "http"]]

\* app.get('/health', (req, res) => res.json(..)): a synchronous handler
Health ==
  /\ answer' = [NoAnswer EXCEPT !.method = "GET /health", !.res = HealthResponse]
  /\ UNCHANGED <<transports, sessionId, created, serverTransport, req, drawn,
                 closeRuns, deleted, sse, stream, currentLogLevel, call>>

\* ------------------------------------------------------------- logging
\* setLogLevel(level): currentLogLevel = level, on a logging/setLevel
\* request served by a binding
setLogLevel(h, level) ==
  /\ h \in BagToSet(req)
  /\ h.pc = "handle"
  /\ h.method = "POST"
  /\ ~h.init
  /\ currentLogLevel # level
  /\ currentLogLevel' = level
  /\ answer' = NoAnswer
  /\ UNCHANGED <<transports, sessionId, created, serverTransport, req, drawn,
                 closeRuns, deleted, sse, stream, call>>

\* ------------------------------------------------------------- system
SessionHeaders == {NoSession} \cup Uuids

Next ==
  \/ \E sid \in SessionHeaders, init \in BOOLEAN : Post(sid, init)
  \/ \E h \in BagToSet(req) : PostConnected(h)
  \/ \E h \in BagToSet(req) : PostConnectFails(h)
  \/ \E h \in BagToSet(req) : PostHandled(h)
  \/ \E h \in BagToSet(req) : HandleRequestFails(h)
  \/ \E h \in BagToSet(req), level \in {"info", "error"} : ToolLog(h, level)
  \/ \E sid \in SessionHeaders : Get(sid)
  \/ \E sid \in SessionHeaders : Delete(sid)
  \/ \E h \in BagToSet(req) : DeleteClose(h)
  \/ \E t \in TransportIds, closes \in BOOLEAN : ChannelDisconnect(t, closes)
  \/ Health
  \/ \E h \in BagToSet(req), level \in LogLevelInputs : setLogLevel(h, level)

Spec == Init /\ [][Next]_vars

TypeOK ==
  /\ transports \in [Uuids -> TransportIds \cup {NoTransport}]
  /\ sessionId \in [TransportIds -> Uuids \cup {NoSession}]
  /\ created \in 0..MaxTransports
  /\ serverTransport \in TransportIds \cup {NoTransport}
  /\ drawn \subseteq Uuids
  /\ enqueued \in 0..MaxNotifs
  /\ BagCardinality(req) <= MaxHandlers
  /\ \A h \in BagToSet(req) : h.pc \in {"connect", "handle"}
  /\ call = NoCall

\* ------------------------------------------------------------- logging.ts
\* values of the type LoggingLevel the two functions are called with: the
\* four of the levels array and two that are not in it
LoggingLevelInputs == {"debug", "info", "notice", "warning", "error", "critical"}

\* the logger called directly; sets counts the setLogLevel calls
loggingCall(fn, level, result, sets) ==
  [fn |-> fn, level |-> level, result |-> result, sets |-> sets]

\* setLogLevel(level)
SetLogLevelCall(level) ==
  /\ call.fn \in {"logging", "setLogLevel", "shouldLog"}
  /\ call.sets < MaxSetCalls
  /\ currentLogLevel' = level
  /\ call' = loggingCall("setLogLevel", level, FALSE, call.sets + 1)
  /\ UNCHANGED gatewayVars

\* shouldLog(level)
ShouldLogCall(level) ==
  /\ call.fn \in {"logging", "setLogLevel", "shouldLog"}
  /\ call' = loggingCall("shouldLog", level,
                         shouldLog(level, currentLogLevel), call.sets)
  /\ UNCHANGED <<gatewayVars, currentLogLevel>>

InitLog ==
  /\ GatewayInit
  /\ currentLogLevel = "info"
  /\ call = loggingCall("logging", "", FALSE, 0)

NextLog ==
  \/ \E level \in LoggingLevelInputs : SetLogLevelCall(level)
  \/ \E level \in LoggingLevelInputs : ShouldLogCall(level)

SpecLog == InitLog /\ [][NextLog]_vars

\* ------------------------------------------------------------- URLs
\* A URL string, kept as what new URL(..) makes of it: whether it parses,
\* and its parts.
Url(protocol, username, password, host, path) ==
  [set |-> TRUE, parses |-> TRUE, protocol |-> protocol,
   username |-> username, password |-> password, host |-> host, path |-> path]

\* undefined or '' (both falsy)
UnsetUrl ==
  [set |-> FALSE, parses |-> FALSE, protocol |-> "", username |-> "",
   password |-> "", host |-> "", path |-> ""]

\* a string new URL(..) throws on
MalformedUrl ==
  [set |-> TRUE, parses |-> FALSE, protocol |-> "", username |-> "",
   password |-> "", host |-> "not-a-url", path |-> ""]

\* ------------------------------------------------------------- results
NoError == [name |-> "", type |-> "", timeout |-> 0, host |-> "", cause |-> ""]

Pending == [kind |-> "pending", error |-> NoError, value |-> ""]
Returned(v) == [kind |-> "return", error |-> NoError, value |-> v]
Thrown(e) == [kind |-> "throw", error |-> e, value |-> ""]

\* new Error(message)
Error(message) ==
  [name |-> "Error", type |-> message, timeout |-> 0, host |-> "", cause |-> ""]

\* ------------------------------------------------------------- proxy.ts
ProxyA == Url("http:", "", "", "proxy-a:8080", "")
ProxyB == Url("https:", "user", "pass", "proxy-b:8443", "/path")
ProxySocks == Url("socks5:", "user", "", "proxy-c:1080", "")

ProxyValues == {UnsetUrl, MalformedUrl, ProxyA, ProxyB, ProxySocks}

\* process.env, the four proxy variables
ProxyEnvs ==
  [HTTP_PROXY : ProxyValues, HTTPS_PROXY : ProxyValues,
   http_proxy : ProxyValues, https_proxy : ProxyValues]

TargetUrls ==
  {Url("http:", "", "", "example.com", "/"),
   Url("https:", "", "", "example.com", "/"),
   Url("ftp:", "", "", "example.com", "/")}

\* a || b || c || d: the first truthy operand, else the last
firstTruthy(a, b, c, d) ==
  IF a.set THEN a ELSE IF b.set THEN b ELSE IF c.set THEN c ELSE d

\* `${protocol}//${auth}${host}`: credentials kept, path dropped
normalizedProxyUrl(u) ==
  [protocol |-> u.protocol,
   auth |-> IF u.username # ""
              THEN (IF u.password # ""
                      THEN <<u.username, ":", u.password, "@">>
                      ELSE <<u.username, "@">>)
              ELSE <<>>,
   host |-> u.host]

\* createProxyAgent(targetUrl), reading process.env
createProxyAgent(env, targetUrl) ==
  LET proxyUrl == firstTruthy(env.HTTP_PROXY, env.HTTPS_PROXY,
                              env.http_proxy, env.https_proxy)
      isHttps == targetUrl.protocol = "https:"
  IN IF ~proxyUrl.set THEN [kind |-> "undefined"]
     ELSE IF ~proxyUrl.parses
       THEN [kind |-> "throw", error |-> Error("Invalid proxy URL")]
     ELSE IF proxyUrl.protocol \notin {"http:", "https:"}
       THEN [kind |-> "throw", error |-> Error("Unsupported proxy protocol")]
     ELSE [kind |-> "agent",
           agent |-> IF isHttps THEN "HttpsProxyAgent" ELSE "HttpProxyAgent",
           proxy |-> normalizedProxyUrl(proxyUrl)]

\* createProxyAgent(targetUrl) called under the environment env
createProxyAgentCall(env, targetUrl) ==
  [fn |-> "createProxyAgent", env |-> env, targetUrl |-> targetUrl,
   pc |-> "start", result |-> [kind |-> "pending"]]

ProxyAgentCall ==
  /\ call.fn = "createProxyAgent"
  /\ call.pc = "start"
  /\ call' = [call EXCEPT !.pc = "done",
                          !.result = createProxyAgent(call.env, call.targetUrl)]
  /\ UNCHANGED <<gatewayVars, currentLogLevel>>

InitProxy ==
  /\ GatewayInit
  /\ currentLogLevel = "info"
  /\ call \in {createProxyAgentCall(env, targetUrl) :
                 env \in ProxyEnvs, targetUrl \in TargetUrls}

NextProxy == ProxyAgentCall

SpecProxy == InitProxy /\ [][NextProxy]_vars

\* ------------------------------------------------------------- error-handler.ts
\* class MCPSearXNGError extends Error, name 'MCPSearXNGError'; the create*
\* helpers each return one, told apart here by a type tag
MCPSearXNGError(type, timeout, host, cause) ==
  [name |-> "MCPSearXNGError", type |-> type, timeout |-> timeout,
   host |-> host, cause |-> cause]

createConfigurationError(message) ==
  MCPSearXNGError("Configuration", 0, "", message)
createJSONError(context) == MCPSearXNGError("JSON", 0, context.url.host, "")
createDataError(context) == MCPSearXNGError("Data", 0, context.url.host, "")
createURLFormatError(url) == MCPSearXNGError("URLFormat", 0, url.host, "")
createNetworkError(error, context) ==
  MCPSearXNGError("Network", 0, context.url.host, error.name)
createServerError(status, context) ==
  MCPSearXNGError("Server", 0, context.url.host, status)
createContentError(message, url) == MCPSearXNGError("Content", 0, url.host, message)
createConversionError(error, url) ==
  MCPSearXNGError("Conversion", 0, url.host, error.name)
createTimeoutError(timeout, url) == MCPSearXNGError("Timeout", timeout, url.host, "")
createUnexpectedError(error, context) ==
  MCPSearXNGError("Unexpected", 0, context.url.host, error.name)

\* what fetch rejects with: an aborted signal gives an AbortError, a
\* connection failure a TypeError
AbortError ==
  [name |-> "AbortError", type |-> "The operation was aborted", timeout |-> 0,
   host |-> "", cause |-> ""]
FetchFailed ==
  [name |-> "TypeError", type |-> "fetch failed", timeout |-> 0, host |-> "",
   cause |-> "ECONNREFUSED"]

\* ------------------------------------------------------------- url-reader.ts
FetchUrls ==
  {MalformedUrl, Url("http:", "", "", "example.com", "/"),
   Url("https:", "", "", "example.com", "/page")}

TimeoutInputs == {100, 10000}

\* the proxy environments the tools are run under
ToolEnvs ==
  {e \in ProxyEnvs :
     /\ e.HTTPS_PROXY = UnsetUrl /\ e.http_proxy = UnsetUrl
     /\ e.https_proxy = UnsetUrl
     /\ e.HTTP_PROXY \in {UnsetUrl, ProxyA, MalformedUrl}}

\* fetchAndConvertToMarkdown(server, url, timeoutMs) called
fetchAndConvertToMarkdownCall(url, timeoutMs, env) ==
  [fn |-> "fetchAndConvertToMarkdown", url |-> url, timeoutMs |-> timeoutMs,
   env |-> env, pc |-> "start", timer |-> "none", fetchRejected |-> "",
   result |-> Pending, caller |-> NoCall]

\* the outer catch of fetchAndConvertToMarkdown: what it throws for the
\* error it caught
outerCatch(error, timeoutMs, url) ==
  IF error.name = "AbortError" THEN createTimeoutError(timeoutMs, url)
  ELSE IF error.name = "MCPSearXNGError" THEN error
  ELSE createUnexpectedError(error, [url |-> url])

\* variant: the timer is left as it is
clearTimeoutNever(timer) == timer

\* finally { clearTimeout(timeoutId) }
clearTimeout(timer) == IF timer = "armed" THEN "cleared" ELSE timer

\* the function ends inside its try block, throwing error or returning v
FetchThrows(error) ==
  [call EXCEPT !.pc = "done", !.timer = clearTimeout(@),
               !.result = Thrown(outerCatch(error, call.timeoutMs, call.url))]

FetchReturns(v) ==
  [call EXCEPT !.pc = "done", !.timer = clearTimeout(@), !.result = Returned(v)]

\* up to the first await: URL validation, the abort timer, the proxy agent
FetchStart ==
  /\ call.fn = "fetchAndConvertToMarkdown"
  /\ call.pc = "start"
  /\ call' =
       IF ~call.url.parses
         THEN [call EXCEPT !.pc = "done",
                           !.result = Thrown(createURLFormatError(call.url))]
         ELSE LET armed == [call EXCEPT !.timer = "armed"]
                  agent == createProxyAgent(call.env, call.url)
              IN IF agent.kind = "throw"
                   THEN [armed EXCEPT
                           !.pc = "done", !.timer = clearTimeout(@),
                           !.result = Thrown(outerCatch(agent.error,
                                               call.timeoutMs, call.url))]
                   ELSE [armed EXCEPT !.pc = "fetch"]
  /\ UNCHANGED <<gatewayVars, currentLogLevel>>

\* setTimeout(() => controller.abort(), timeoutMs) fires while the function
\* is suspended
AbortTimerFires ==
  /\ call.fn = "fetchAndConvertToMarkdown"
  /\ call.pc \in {"fetch", "text"}
  /\ call.timer = "armed"
  /\ call' = [call EXCEPT !.timer = "fired"]
  /\ UNCHANGED <<gatewayVars, currentLogLevel>>

\* await fetch(url, requestOptions) settles: aborted, failed, answered with
\* a status that is not ok, or answered ok
FetchSettles(outcome) ==
  /\ call.fn = "fetchAndConvertToMarkdown"
  /\ call.pc = "fetch"
  /\ call' =
       IF call.timer = "fired" \/ outcome = "fails"
         THEN LET error == IF call.timer = "fired" THEN AbortError
                           ELSE FetchFailed
                  thrown == createNetworkError(error, [url |-> call.url])
              IN [FetchThrows(thrown) EXCEPT !.fetchRejected = error.name]
       ELSE IF outcome = "notOk"
         THEN FetchThrows(createServerError("404", [url |-> call.url]))
       ELSE [call EXCEPT !.pc = "text"]
  /\ UNCHANGED <<gatewayVars, currentLogLevel>>

\* await response.text() settles and the rest of the function runs:
\* the content check and NodeHtmlMarkdown.translate
TextSettles(outcome) ==
  /\ call.fn = "fetchAndConvertToMarkdown"
  /\ call.pc = "text"
  /\ call' =
       IF call.timer = "fired" \/ outcome = "textFails"
         THEN FetchThrows(createContentError("Failed to read website content",
                                             call.url))
       ELSE IF outcome = "emptyHtml"
         THEN FetchThrows(createContentError("Website returned empty content.",
                                             call.url))
       ELSE IF outcome = "translateFails"
         THEN FetchThrows(createConversionError(Error("translate"), call.url))
       ELSE IF outcome = "emptyMarkdown"
         THEN FetchReturns("createEmptyContentWarning")
       ELSE FetchReturns("markdownContent")
  /\ UNCHANGED <<gatewayVars, currentLogLevel>>

FetchOutcomes == {"ok", "notOk", "fails"}
TextOutcomes ==
  {"textFails", "emptyHtml", "translateFails", "emptyMarkdown", "markdown"}

InitFetch ==
  /\ GatewayInit
  /\ currentLogLevel = "info"
  /\ call \in {fetchAndConvertToMarkdownCall(url, timeoutMs, env) :
                 url \in FetchUrls, timeoutMs \in TimeoutInputs,
                 env \in ToolEnvs}

NextFetch ==
  \/ FetchStart
  \/ AbortTimerFires
  \/ \E outcome \in FetchOutcomes : FetchSettles(outcome)
  \/ \E outcome \in TextOutcomes : TextSettles(outcome)

SpecFetch == InitFetch /\ [][NextFetch]_vars

\* ------------------------------------------------------------- search.ts
\* an optional argument: given, or undefined
Given(v) == [def |-> TRUE, v |-> v]
NotGivenString == [def |-> FALSE, v |-> ""]
NotGivenNumber == [def |-> FALSE, v |-> 0]

QueryInputs == {"", "tla"}
PagenoInputs == {NotGivenNumber, Given(1), Given(2), Given(10)}
TimeRangeInputs ==
  {NotGivenString} \cup {Given(v) : v \in {"day", "month", "year", "week", ""}}
LanguageInputs == {NotGivenString} \cup {Given(v) : v \in {"all", "en", ""}}
SafesearchInputs ==
  {NotGivenString} \cup {Given(v) : v \in {"0", "1", "2", "3", ""}}

\* process.env.SEARXNG_URL
SearxngUrlInputs ==
  {UnsetUrl, MalformedUrl, Url("http:", "", "", "localhost:8080", "/searxng")}

\* Number.prototype.toString of a non-negative integer
Digit(d) == <<"0", "1", "2", "3", "4", "5", "6", "7", "8", "9">>[d + 1]

RECURSIVE toString(_)
toString(n) ==
  IF n < 10 THEN Digit(n) ELSE toString(n \div 10) \o Digit(n % 10)

\* URLSearchParams.set(name, value): the value of an existing name is
\* replaced, a new name is appended
searchParamsSet(params, name, value) ==
  IF \E i \in 1..Len(params) : params[i][1] = name
    THEN [i \in 1..Len(params) |->
            IF params[i][1] = name THEN <<name, value>> ELSE params[i]]
    ELSE Append(params, <<name, value>>)

\* a default parameter value: pageno = 1, language = "all"
orDefault(arg, default) == IF arg.def THEN arg.v ELSE default

\* variant: every optional argument that was given is sent
searchUrlUnfiltered(parsedUrl, query, pageno, time_range, language, safesearch) ==
  LET p0 == searchParamsSet(<<>>, "q", query)
      p1 == searchParamsSet(p0, "format", "json")
      p2 == searchParamsSet(p1, "pageno", toString(orDefault(pageno, 1)))
      p3 == IF time_range.def
              THEN searchParamsSet(p2, "time_range", time_range.v) ELSE p2
      p4 == IF language.def
              THEN searchParamsSet(p3, "language", language.v) ELSE p3
      p5 == IF safesearch.def
              THEN searchParamsSet(p4, "safesearch", safesearch.v) ELSE p4
  IN [protocol |-> parsedUrl.protocol, host |-> parsedUrl.host,
      pathname |-> "/search", searchParams |-> p5]

\* new URL(`${parsedUrl.origin}/search`) and the searchParams.set calls
searchUrl(parsedUrl, query, pageno, time_range, language, safesearch) ==
  LET lang == orDefault(language, "all")
      p0 == searchParamsSet(<<>>, "q", query)
      p1 == searchParamsSet(p0, "format", "json")
      p2 == searchParamsSet(p1, "pageno", toString(orDefault(pageno, 1)))
      p3 == IF time_range.def /\ time_range.v \in {"day", "month", "year"}
              THEN searchParamsSet(p2, "time_range", time_range.v) ELSE p2
      p4 == IF lang # "" /\ lang # "all"
              THEN searchParamsSet(p3, "language", lang) ELSE p3
      p5 == IF safesearch.def /\ safesearch.v \in {"0", "1", "2"}
              THEN searchParamsSet(p4, "safesearch", safesearch.v) ELSE p4
  IN [protocol |-> parsedUrl.protocol, host |-> parsedUrl.host,
      pathname |-> "/search", searchParams |-> p5]

\* variant: only an unset SEARXNG_URL is refused
configurationErrorUnsetOnly(searxngUrl) ==
  IF ~searxngUrl.set
    THEN createConfigurationError("SEARXNG_URL not set")
    ELSE NoError

\* the checks of process.env.SEARXNG_URL: the error thrown, if any
configurationError(searxngUrl) ==
  IF ~searxngUrl.set
    THEN createConfigurationError("SEARXNG_URL not set")
  ELSE IF ~searxngUrl.parses
    THEN createConfigurationError("Invalid SEARXNG_URL format")
  ELSE NoError

\* performWebSearch(server, query, pageno, time_range, language, safesearch)
\* called; fetched lists the URLs fetch was called with
performWebSearchCall(query, pageno, time_range, language, safesearch, searxngUrl, env) ==
  [fn |-> "performWebSearch", query |-> query, pageno |-> pageno,
   time_range |-> time_range, language |-> language,
   safesearch |-> safesearch, searxngUrl |-> searxngUrl, env |-> env,
   pc |-> "start", fetched |-> <<>>, result |-> Pending, caller |-> NoCall]

\* up to the first await: the configuration checks, the URL, the proxy
\* agent, the call of fetch
SearchStart ==
  /\ call.fn = "performWebSearch"
  /\ call.pc = "start"
  /\ LET error == configurationError(call.searxngUrl)
         url == searchUrl(call.searxngUrl, call.query, call.pageno,
                          call.time_range, call.language, call.safesearch)
         agent == createProxyAgent(call.env, url)
     IN call' =
          IF error # NoError
            THEN [call EXCEPT !.pc = "done", !.result = Thrown(error)]
          ELSE IF agent.kind = "throw"
            THEN [call EXCEPT !.pc = "done", !.result = Thrown(agent.error)]
          ELSE [call EXCEPT !.pc = "fetch", !.fetched = Append(@, url)]
  /\ UNCHANGED <<gatewayVars, currentLogLevel>>

SearchOutcomes == {"fails", "notOk", "badJson", "noResults", "empty", "results"}

\* await fetch(..) settles and the rest of the function runs
SearchSettles(outcome) ==
  /\ call.fn = "performWebSearch"
  /\ call.pc = "fetch"
  /\ LET context == [url |-> call.fetched[Len(call.fetched)]]
         result ==
           CASE outcome = "fails" ->
                  Thrown(createNetworkError(FetchFailed, context))
             [] outcome = "notOk" -> Thrown(createServerError("500", context))
             [] outcome = "badJson" -> Thrown(createJSONError(context))
             [] outcome = "noResults" -> Thrown(createDataError(context))
             [] outcome = "empty" -> Returned("createNoResultsMessage")
             [] OTHER -> Returned("results")
     IN call' = [call EXCEPT !.pc = "done", !.result = result]
  /\ UNCHANGED <<gatewayVars, currentLogLevel>>

InitSearch ==
  /\ GatewayInit
  /\ currentLogLevel = "info"
  /\ call \in {performWebSearchCall(q, p, t, l, s, u, env) :
                 q \in QueryInputs, p \in PagenoInputs, t \in TimeRangeInputs,
                 l \in LanguageInputs, s \in SafesearchInputs,
                 u \in SearxngUrlInputs, env \in ToolEnvs}

NextSearch ==
  \/ SearchStart
  \/ \E outcome \in SearchOutcomes : SearchSettles(outcome)

SpecSearch == InitSearch /\ [][NextSearch]_vars

\* ------------------------------------------------------------- tools/call
ToolNames == {"searxng_web_search", "web_url_read", "unknown_tool"}

\* request.params.arguments: missing, or an object of which the handler
\* reads query (with its typeof), the optional search arguments and url
NoArguments ==
  [given |-> FALSE, queryType |-> "undefined", query |-> "",
   pageno |-> NotGivenNumber, time_range |-> NotGivenString,
   language |-> NotGivenString, safesearch |-> NotGivenString,
   url |-> MalformedUrl]

EmptyArguments == [NoArguments EXCEPT !.given = TRUE]

ArgumentsInputs ==
  {NoArguments, EmptyArguments,
   [EmptyArguments EXCEPT !.queryType = "number"],
   [EmptyArguments EXCEPT !.queryType = "string", !.query = "tla"],
   [EmptyArguments EXCEPT !.queryType = "string", !.query = "tla",
                          !.pageno = Given(2), !.time_range = Given("week"),
                          !.language = Given("en"), !.safesearch = Given("1")]}
  \cup {[EmptyArguments EXCEPT !.url = u] : u \in FetchUrls}

\* typeof args === "object" && args !== null && "query" in args &&
\* typeof args.query === "string"
isSearXNGWebSearchArgs(args) == args.given /\ args.queryType = "string"

\* error.message of the errors of this model
message(error) == error.type

\* the value the handler resolves with
ToolResult(isError, text) ==
  [kind |-> "return", isError |-> isError,
   content |-> <<[type |-> "text", text |-> text]>>, error |-> NoError]

\* variant: the catch handles only the errors of error-handler.ts and
\* rethrows the others
catchMCPSearXNGError(outcome) ==
  IF outcome.kind = "throw" /\ outcome.error.name # "MCPSearXNGError"
    THEN [kind |-> "throw", isError |-> TRUE, content |-> <<>>,
          error |-> outcome.error]
  ELSE IF outcome.kind = "throw"
    THEN ToolResult(TRUE, "Error: " \o message(outcome.error))
  ELSE ToolResult(FALSE, outcome.value)

\* what the handler resolves with when its try block threw (the catch) or
\* a tool function returned
catch(outcome) ==
  IF outcome.kind = "throw"
    THEN ToolResult(TRUE, "Error: " \o message(outcome.error))
    ELSE ToolResult(FALSE, outcome.value)

\* the handler of CallToolRequestSchema called with request.params =
\* {name, arguments: args}, under the environment searxngUrl, env
callToolRequest(name, args, searxngUrl, env) ==
  [fn |-> "tools/call", name |-> name, args |-> args,
   searxngUrl |-> searxngUrl, env |-> env, pc |-> "start",
   toolReturned |-> FALSE, result |-> Pending]

\* the handler up to its await
CallToolStart ==
  /\ call.fn = "tools/call"
  /\ call.pc = "start"
  /\ LET args == call.args
         ends(r) == [call EXCEPT !.pc = "done", !.result = r]
     IN call' =
          IF ~args.given
            THEN ends(catch(Thrown(Error("No arguments provided"))))
          ELSE IF call.name = "searxng_web_search"
            THEN IF ~isSearXNGWebSearchArgs(args)
                   THEN ends(catch(Thrown(
                          Error("Invalid arguments for searxng_web_search"))))
                   ELSE [performWebSearchCall(args.query, args.pageno,
                           args.time_range, args.language, args.safesearch,
                           call.searxngUrl, call.env)
                         EXCEPT !.caller = call]
          ELSE IF call.name = "web_url_read"
            THEN [fetchAndConvertToMarkdownCall(args.url, 10000, call.env)
                  EXCEPT !.caller = call]
          ELSE ends(ToolResult(TRUE, "Unknown tool: " \o call.name))
  /\ UNCHANGED <<gatewayVars, currentLogLevel>>

\* the awaited tool function has settled
CallToolSettles ==
  /\ call.fn \in {"performWebSearch", "fetchAndConvertToMarkdown"}
  /\ call.pc = "done"
  /\ call.caller # NoCall
  /\ call' = [call.caller EXCEPT
                 !.pc = "done",
                 !.toolReturned = (call.result.kind = "return"),
                 !.result = catch(call.result)]
  /\ UNCHANGED <<gatewayVars, currentLogLevel>>

InitTool ==
  /\ GatewayInit
  /\ currentLogLevel = "info"
  /\ call \in {callToolRequest(name, args, searxngUrl, env) :
                 name \in ToolNames, args \in ArgumentsInputs,
                 searxngUrl \in SearxngUrlInputs, env \in ToolEnvs}

NextTool ==
  \/ CallToolStart
  \/ CallToolSettles
  \/ SearchStart
  \/ \E outcome \in SearchOutcomes : SearchSettles(outcome)
  \/ FetchStart
  \/ AbortTimerFires
  \/ \E outcome \in FetchOutcomes : FetchSettles(outcome)
  \/ \E outcome \in TextOutcomes : TextSettles(outcome)

SpecTool == InitTool /\ [][NextTool]_vars

C2_HeaderlessNonInitRejected ==
  [][(answer'.method = "POST" /\ answer'.sid = NoSession /\ ~answer'.init)
       => /\ answer'.res.status = 400
          /\ answer'.res.kind = "json"
          /\ answer'.res.code = -32000
          /\ answer'.res.message = "Bad Request: No valid session ID provided"
          /\ answer'.dispatched = NoTransport
          /\ created' = created
          /\ transports' = transports
          /\ req' = req]_vars

C2_Witness ==
  /\ answer.method = "POST"
  /\ answer.sid = NoSession
  /\ ~answer.init
  /\ answer.res.status = 400
  /\ RegisteredIds # {}

C4_HandshakeRegistersAndRoutes ==
  [][/\ (answer'.method = "POST" /\ answer'.sid = NoSession /\ answer'.init
          /\ answer'.res.status = 200)
         => /\ answer'.returned # NoSession
            /\ answer'.dispatched # NoTransport
            /\ transports[answer'.returned] = NoTransport
            /\ transports' =
                 [transports EXCEPT ![answer'.returned] = answer'.dispatched]
            /\ sessionId'[answer'.dispatched] = answer'.returned
     /\ \A h \in BagToSet(req' (-) req) :
          (h.method = "POST" /\ h.sid # NoSession)
            => /\ h.transport \in 1..created
               /\ sessionId[h.transport] = h.sid
               /\ created' = created
               /\ transports' = transports]_vars

\* a POST with a registered id answered by the first binding while a second
\* session exists
C4_Witness ==
  /\ answer.method = "POST"
  /\ answer.sid # NoSession
  /\ answer.inRegistry
  /\ answer.dispatched = 1
  /\ answer.res.status = 200
  /\ created = 2
  /\ sessionId[2] # NoSession

C6_ConcurrentHandshakesAllRegistered ==
  LET Live == {t \in TransportIds :
                 sessionId[t] # NoSession /\ closeRuns[t] = 0}
  IN /\ \A t \in Live : transports[sessionId[t]] = t
     /\ Cardinality(RegisteredIds) = Cardinality(Live)

\* the handshake that started first is answered after the one that started
\* second: both were suspended at their awaits together
C6_Witness ==
  /\ answer.returned # NoSession
  /\ answer.dispatched = 1
  /\ sessionId[2] # NoSession
  /\ sessionId[2] # sessionId[1]
  /\ transports[sessionId[1]] = 1
  /\ transports[sessionId[2]] = 2

C9_ClosedLooksUnknown ==
  LET Unknown(m) ==
        IF m = "POST"
          THEN [status |-> 400, kind |-> "json", code |-> -32000,
                message |-> "Bad Request: No valid session ID provided"]
          ELSE [status |-> 400, kind |-> "text", code |-> 0,
                message |-> "Invalid or missing session ID"]
  IN /\ ClosedIds \cap RegisteredIds = {}
     /\ (answer.sid # NoSession /\ answer.wasClosed)
          => (answer.res = Unknown(answer.method)
                /\ answer.dispatched = NoTransport)
     /\ (answer.sid # NoSession /\ answer.sid \notin drawn)
          => (answer.res = Unknown(answer.method)
                /\ answer.dispatched = NoTransport)

C9_Witness ==
  /\ answer.method = "POST"
  /\ answer.sid # NoSession
  /\ answer.wasClosed
  /\ answer.res.status = 400
  /\ RegisteredIds # {}

\* C10: the notifications written to a push channel appear on it in the
\* order in which the protocol engine enqueued them.
C10_PushInEnqueueOrder ==
  \A t \in TransportIds :
    \A i, j \in 1..Len(stream[t]) : i < j => stream[t][i] < stream[t][j]

C10_Witness == \E t \in TransportIds : sse[t] /\ Len(stream[t]) >= 2

\* C11: a handler whose server.connect or handleRequest call failed answers
\* with a structured (JSON) error response, and the failure does not leave
\* the handler as a rejection of its own promise.
C11_FailureAnsweredLocally ==
  answer.failed
    => /\ answer.res.kind = "json"
       /\ answer.res.status >= 400
       /\ ~answer.escaped

\* C12: when server.connect rejects for a handshake, that step leaves the
\* registry as it was, and the registry holds no entry of a binding that has
\* not completed its handshake under that key.
C12_ConnectFailureLeavesRegistry ==
  [][(answer'.failed /\ answer'.method = "POST" /\ answer'.sid = NoSession
        /\ answer'.init)
       => /\ transports' = transports
          /\ \A u \in Uuids :
               transports'[u] # NoTransport
                 => sessionId'[transports'[u]] = u]_vars

\* a handshake failed at server.connect while another session is registered
C12_Witness ==
  /\ answer.failed
  /\ answer.method = "POST"
  /\ answer.sid = NoSession
  /\ answer.init
  /\ created = 2
  /\ RegisteredIds # {}

\* C14: GET /health can be served in every state of the gateway; it answers
\* 200 with the same body (status 'healthy', the server identity, the
\* version, transport 'http') whatever the registry holds, and the step
\* changes neither the registry nor any other state of the gateway.
C14_HealthStaticNoSessionEffect ==
  [][/\ ENABLED Health
     /\ answer'.method = "GET /health"
          => /\ answer'.res.status = 200
             /\ answer'.res.body =
                  [status |-> "healthy", server |-> "ihor-sokoliuk/mcp-searxng",
                   version |-> "0.6.1", transport |-> "http"]
             /\ UNCHANGED <<transports, sessionId, created, serverTransport,
                            req, drawn, closeRuns, deleted, sse, stream,
                            currentLogLevel, call>>]_vars

\* the health check answered while a session is registered, another was
\* closed and a handler is suspended
C14_Witness ==
  /\ answer.method = "GET /health"
  /\ answer.res.status = 200
  /\ RegisteredIds # {}
  /\ ClosedIds # {}
  /\ req # EmptyBag

\* C15: when the abort timer fired and fetch rejected with an AbortError,
\* fetchAndConvertToMarkdown fails with createTimeoutError(timeoutMs, url).
C15_AbortGivesTimeoutError ==
  (call.fn = "fetchAndConvertToMarkdown" /\ call.pc = "done"
     /\ call.fetchRejected = "AbortError")
    => call.result = Thrown(createTimeoutError(call.timeoutMs, call.url))

\* C16: the URL performWebSearch fetches carries q = query, format = json
\* and pageno (1 when none was given); it carries time_range exactly when
\* the argument is day, month or year, language exactly when it is given,
\* non-empty and not 'all', safesearch exactly when it is '0', '1' or '2',
\* each with the value of the argument; it carries no other parameter and
\* none twice.
C16_SearchUrlParameters ==
  (call.fn = "performWebSearch" /\ call.fetched # <<>>)
    => LET params == call.fetched[1].searchParams
           Names == {params[i][1] : i \in 1..Len(params)}
           Value(n) == params[CHOOSE i \in 1..Len(params) : params[i][1] = n][2]
           Carried(n, arg, allowed) ==
             IF arg.def /\ arg.v \in allowed
               THEN n \in Names /\ Value(n) = arg.v
               ELSE n \notin Names
       IN /\ Len(call.fetched) = 1
          /\ {"q", "format", "pageno"} \subseteq Names
          /\ Names \subseteq {"q", "format", "pageno", "time_range",
                               "language", "safesearch"}
          /\ Cardinality(Names) = Len(params)
          /\ Value("q") = call.query
          /\ Value("format") = "json"
          /\ Value("pageno") =
               (IF ~call.pageno.def \/ call.pageno.v = 1 THEN "1"
                ELSE IF call.pageno.v = 2 THEN "2" ELSE "10")
          /\ Carried("time_range", call.time_range, {"day", "month", "year"})
          /\ IF call.language.def /\ call.language.v \notin {"", "all"}
               THEN "language" \in Names /\ Value("language") = call.language.v
               ELSE "language" \notin Names
          /\ Carried("safesearch", call.safesearch, {"0", "1", "2"})

\* a search fetched with a time range, a language and a safesearch value
\* that are all refused, on page 10
C16_Witness ==
  /\ call.fn = "performWebSearch"
  /\ call.pc = "done"
  /\ Len(call.fetched) = 1
  /\ call.time_range = Given("week")
  /\ call.language = Given("all")
  /\ call.safesearch = Given("3")
  /\ call.pageno = Given(10)
  /\ Len(call.fetched[1].searchParams) = 3

C18_ShouldLogSeverityOrder ==
  LET Four == {"debug", "info", "warning", "error"}
      Severity(l) ==
        CASE l = "debug" -> 1 [] l = "info" -> 2 [] l = "warning" -> 3
          [] l = "error" -> 4
  IN (call.fn = "shouldLog" /\ call.level \in Four /\ currentLogLevel \in Four)
       => (call.result <=> Severity(call.level) >= Severity(currentLogLevel))

\* a warning is refused at level error, set by the third setLogLevel call
C18_Witness ==
  /\ call.fn = "shouldLog"
  /\ call.level = "warning"
  /\ currentLogLevel = "error"
  /\ call.result = FALSE
  /\ call.sets = 3

\* C19: with HTTP_PROXY and HTTPS_PROXY set to two different proxies,
\* createProxyAgent returns for an https: target an agent through the proxy
\* of HTTPS_PROXY and for an http: target an agent through the proxy of
\* HTTP_PROXY; with none of the four variables set it returns undefined.
C19_ProxyChosenByTargetProtocol ==
  (call.fn = "createProxyAgent" /\ call.pc = "done")
    => LET env == call.env
           Through(proxy) ==
             /\ call.result.kind = "agent"
             /\ call.result.proxy.host = proxy.host
             /\ call.result.proxy.protocol = proxy.protocol
       IN /\ ({env.HTTP_PROXY, env.HTTPS_PROXY} = {ProxyA, ProxyB})
               => /\ call.targetUrl.protocol = "https:"
                       => Through(env.HTTPS_PROXY)
                  /\ call.targetUrl.protocol = "http:"
                       => Through(env.HTTP_PROXY)
          /\ (\A v \in {env.HTTP_PROXY, env.HTTPS_PROXY, env.http_proxy,
                         env.https_proxy} : ~v.set)
               => call.result.kind = "undefined"

\* C20: the tools/call handler always resolves and never throws; its
\* result has exactly one content item, of type text; isError is false
\* exactly when a tool function was called and returned normally, and true
\* for missing arguments, search arguments that fail isSearXNGWebSearchArgs,
\* an unknown tool name, and any error thrown by performWebSearch or
\* fetchAndConvertToMarkdown.
C20_CallToolNeverThrows ==
  (call.fn = "tools/call" /\ call.pc = "done")
    => /\ call.result.kind = "return"
       /\ Len(call.result.content) = 1
       /\ call.result.content[1].type = "text"
       /\ call.result.isError = ~call.toolReturned
       /\ ~call.args.given => call.result.isError
       /\ (call.name = "searxng_web_search" /\ call.args.queryType # "string")
            => call.result.isError
       /\ call.name \notin {"searxng_web_search", "web_url_read"}
            => call.result.isError

\* a search whose proxy agent could not be created (a plain Error, thrown
\* by createProxyAgent inside performWebSearch) has been answered
C20_Witness ==
  /\ call.fn = "tools/call"
  /\ call.pc = "done"
  /\ call.name = "searxng_web_search"
  /\ call.args.queryType = "string"
  /\ call.searxngUrl.parses
  /\ call.env.HTTP_PROXY = MalformedUrl
  /\ call.result.isError
  /\ ~call.toolReturned

\* C21: in every reachable state each session id of the registry maps to
\* exactly one binding, the one whose sessionId it is, and no binding is
\* registered under two different ids.
C21_RegistryOneToOne ==
  /\ \A u \in RegisteredIds :
       /\ transports[u] \in 1..created
       /\ sessionId[transports[u]] = u
  /\ \A u, v \in RegisteredIds : transports[u] = transports[v] => u = v

\* two sessions are registered at once, each binding under its own id
C21_Witness ==
  /\ Cardinality(RegisteredIds) = 2
  /\ Cardinality({transports[u] : u \in RegisteredIds}) = 2

\* C22: the session of each binding goes through Initializing, Active and
\* Closed in that order only: it starts as Initializing when its binding is
\* constructed, becomes Active only from Initializing and at most once,
\* becomes Closed only from Active, and once Closed it is never Active or
\* Initializing again.
C22_LifecycleOrder ==
  [][LET Initializing(reg, runs, n, t) ==
           t <= n /\ runs[t] = 0 /\ \A u \in Uuids : reg[u] # t
         Active(reg, t) == \E u \in Uuids : reg[u] = t
         Closed(runs, t) == runs[t] > 0
     IN \A t \in TransportIds :
          LET init == Initializing(transports, closeRuns, created, t)
              init2 == Initializing(transports', closeRuns', created', t)
              act == Active(transports, t)
              act2 == Active(transports', t)
              cls == Closed(closeRuns, t)
              cls2 == Closed(closeRuns', t)
          IN /\ (init2 /\ ~init) => (t = created + 1 /\ created' = t)
             /\ (act2 /\ ~act) => init
             /\ (cls2 /\ ~cls) => act
             /\ cls => (cls2 /\ ~act2 /\ ~init2)
             /\ act => ~init2]_vars

\* a session has been closed while a request dispatched to its binding is
\* still in flight, and another session is Active
C22_Witness ==
  \E t \in TransportIds :
    /\ closeRuns[t] > 0
    /\ \A u \in Uuids : transports[u] # t
    /\ \E h \in BagToSet(req) : h.transport = t /\ h.pc = "handle"
    /\ \E u \in Uuids : transports[u] \notin {t, NoTransport}

\* C24: every step that rejects a request with a 400 and every lookup that
\* dispatches a request to a registered binding leave the registry as it
\* is; the registry changes only in the step of a handshake that registers
\* its new session, which adds that one entry, and in a run of a close
\* callback, which removes that binding's entry.
C24_RegistryFrame ==
  [][/\ answer'.res.status = 400 => transports' = transports
     /\ (\E h \in BagToSet(req') :
           h.pc = "handle" /\ CopiesIn(h, req') > CopiesIn(h, req))
          => transports' = transports
     /\ (answer'.method = "GET" /\ answer'.dispatched # NoTransport)
          => transports' = transports
     /\ transports' # transports
          => \/ /\ answer'.method = "POST"
                /\ answer'.init
                /\ answer'.sid = NoSession
                /\ answer'.returned # NoSession
                /\ transports[answer'.returned] = NoTransport
                /\ transports' =
                     [transports EXCEPT ![answer'.returned] = answer'.dispatched]
             \/ \E t \in TransportIds :
                  /\ closeRuns'[t] = closeRuns[t] + 1
                  /\ sessionId[t] # NoSession
                  /\ transports' =
                       [transports EXCEPT ![sessionId[t]] = NoTransport]]_vars

\* while a session is registered, a DELETE that names a closed session has
\* just been rejected
C24_Witness ==
  /\ answer.method = "DELETE"
  /\ answer.res = InvalidSessionResponse
  /\ answer.wasClosed
  /\ RegisteredIds # {}

\* C25: a registered session stays in the registry, mapped to the same
\* binding, until the close callback of its own binding runs; a run of the
\* close callback of one binding changes no entry but that binding's own.
C25_OnlyOwnCloseRemoves ==
  [][/\ \A u \in RegisteredIds :
          transports'[u] # transports[u]
            => /\ transports'[u] = NoTransport
               /\ closeRuns'[transports[u]] = closeRuns[transports[u]] + 1
     /\ \A t \in TransportIds :
          closeRuns'[t] # closeRuns[t]
            => \A u \in Uuids :
                 u # sessionId[t] => transports'[u] = transports[u]]_vars

\* a DELETE has closed one session while the other, with its push channel
\* open, is still registered
C25_Witness ==
  /\ answer.method = "DELETE"
  /\ answer.res = BindingOk
  /\ closeRuns[answer.dispatched] > 0
  /\ \E u \in RegisteredIds :
       /\ transports[u] # answer.dispatched
       /\ sse[transports[u]]

C27_SessionIsolation ==
  [][/\ \A h \in BagToSet(req') :
          (h.method = "POST" /\ h.sid # NoSession
             /\ CopiesIn(h, req') > CopiesIn(h, req))
            => \A t \in TransportIds :
                 stream'[t] # stream[t] => t = h.transport
     /\ (stream' # stream /\ req' = req /\ created' = created
           /\ closeRuns' = closeRuns)
          => \A t \in TransportIds :
               stream'[t] # stream[t]
                 => \E h \in BagToSet(req) :
                      /\ h.pc = "handle"
                      /\ h.method = "POST"
                      /\ h.transport = t]_vars

\* C28: every error performWebSearch rejects with is an MCPSearXNGError,
\* on every path, the one where the proxy variable holds a URL that does
\* not parse included.
C28_SearchRejectsWithMCPSearXNGError ==
  (call.fn = "performWebSearch" /\ call.pc = "done"
     /\ call.result.kind = "throw")
    => call.result.error.name = "MCPSearXNGError"

\* C29: for every logging level of the protocol, notice and critical among
\* them, after setLogLevel(c) the call shouldLog(l) answers true exactly
\* when l is at least as severe as c.
C29_ShouldLogAllLevels ==
  LET severity == <<"debug", "info", "notice", "warning", "error",
                    "critical", "alert", "emergency">>
  IN call.fn = "shouldLog"
       => (call.result
             <=> indexOf(severity, call.level)
                   >= indexOf(severity, currentLogLevel))

\* C30: a call of fetchAndConvertToMarkdown that started its abort timer
\* leaves no armed timer behind when it settles, by return or by any of
\* its errors; a call with a URL that does not parse never starts the
\* timer, never reaches fetch and fails with the URL format error.
C30_TimerClearedOnEveryPath ==
  call.fn = "fetchAndConvertToMarkdown"
    => /\ call.pc = "done" => call.timer \in {"none", "cleared", "fired"}
       /\ (call.pc = "done" /\ call.url.parses)
            => call.timer \in {"cleared", "fired"}
       /\ call.pc \in {"fetch", "text"} => call.timer \in {"armed", "fired"}
       /\ ~call.url.parses
            => /\ call.timer = "none"
               /\ call.pc \in {"start", "done"}
               /\ call.pc = "done"
                    => call.result = Thrown(createURLFormatError(call.url))

\* the conversion failed after fetch and text had settled, and the timer,
\* which had not fired, is cleared
C30_Witness ==
  /\ call.fn = "fetchAndConvertToMarkdown"
  /\ call.pc = "done"
  /\ call.result.kind = "throw"
  /\ call.result.error.type = "Conversion"
  /\ call.timer = "cleared"

==========================================================================
